---- MODULE Spec2Model ----
(***************************************************************************)
(* Model of the language detection service of                             *)
(* src/vs/workbench/services/languageDetection/browser/                    *)
(* languageDetectionWorkerServiceImpl.ts: the LanguageDetectionService     *)
(* (history sets, bias computation, detectLanguage orchestration) and the  *)
(* LanguageDetectionWorkerClient (lazy single worker, remote detect).      *)
(*                                                                         *)
(* Language ids and raw codes are small integers.  Ids 1..NumLangs are the *)
(* ids registered with the language registry; NumLangs+1 and NumLangs+2    *)
(* are unregistered codes (file extensions), the first of which the        *)
(* registry can guess a language for.                                      *)
(***************************************************************************)
EXTENDS Integers, Sequences, FiniteSets, TLC

(* ------------------------------ bounds --------------------------------- *)
NumLangs == 12
NumEditorLangs == 2
MaxEvents == 3
MaxCalls == 2

(* -------------------------- program constants -------------------------- *)
(* Variant: a global cache constructed one entry too large. *)
historicalGlobalLimit_eleven == 10 + 1

historicalGlobalLimit == 10
historicalWorkspaceLimit == 10
sessionWeight == 4
workspaceWeight == 3
historicalWorkspaceWeight == 2
historicalGlobalWeight == 1

(* ------------------------------- values -------------------------------- *)
NoLang == 0
Null == 0 - 1
NoCode == 0
Langs == 1..NumLangs
EditorLangs == 1..NumEditorLangs
GuessableCode == NumLangs + 1
UnknownCode == NumLangs + 2
RawCodes == {1, GuessableCode, UnknownCode}
WorkspaceExtensions == {1, GuessableCode, UnknownCode}
Scopes == {"global", "workspace"}
CallIds == 1..MaxCalls

(* storage: the two slots of openedLanguagesStorageKey; storeWrites: the   *)
(* store calls made per scope; activeTextEditorLanguageId, editorEvents:   *)
(* the editor service's active language and the events it has fired; the   *)
(* five service fields of lines 41-45; enumeration, enumerationStarts: the *)
(* getWorkspaceFileExtensions promise and how often it was requested;      *)
(* workerPromise, workerCreations: the client's memoized worker and the    *)
(* SimpleWorkerClient constructions; calls: each detectLanguage call's     *)
(* position, arguments and outcome; clientUris: the four readonly URI      *)
(* fields of the worker client; returned: the last value a synchronous     *)
(* query (isEnabledForLanguage, fhr) handed back; running: the process has *)
(* not crashed; inputBox: one renderInputBox call of the debug view's      *)
(* expression renderer (baseDebugView.ts), the elements it shows and       *)
(* hides, its listeners and what it reported.                              *)
VARIABLES
    storage,
    storeWrites,
    activeTextEditorLanguageId,
    editorEvents,
    sessionOpenedLanguageIds,
    workspaceLanguageIds,
    hasResolvedWorkspaceLanguageIds,
    historicalGlobalOpenedLanguageIds,
    historicalWorkspaceOpenedLanguageIds,
    enumeration,
    enumerationStarts,
    workerPromise,
    workerCreations,
    calls,
    clientUris,
    returned,
    running,
    inputBox

vars == <<storage, storeWrites, activeTextEditorLanguageId, editorEvents,
          sessionOpenedLanguageIds, workspaceLanguageIds,
          hasResolvedWorkspaceLanguageIds, historicalGlobalOpenedLanguageIds,
          historicalWorkspaceOpenedLanguageIds, enumeration, enumerationStarts,
          workerPromise, workerCreations, calls, clientUris, returned,
          running, inputBox>>

(* The variables of the language detection service and its worker client. *)
detectionVars ==
    <<storage, storeWrites, activeTextEditorLanguageId, editorEvents,
      sessionOpenedLanguageIds, workspaceLanguageIds,
      hasResolvedWorkspaceLanguageIds, historicalGlobalOpenedLanguageIds,
      historicalWorkspaceOpenedLanguageIds, enumeration, enumerationStarts,
      workerPromise, workerCreations, calls, clientUris, returned, running>>

(* ----------------------- LRUCache<string, true> ------------------------ *)
(* LRUCache is defined in vs/base/common/map; it is modelled by its         *)
(* documented contract: a fixed capacity, set inserts or refreshes a key   *)
(* as the most recent one and drops the least recent keys past capacity.   *)
(* A cache is the sequence of its keys, least recently touched first.      *)
keys(cache) == {cache[i] : i \in 1..Len(cache)}

RemoveKey(cache, key) == SelectSeq(cache, LAMBDA k : k # key)

RECURSIVE trimOld(_, _)
trimOld(cache, limit) ==
    IF Len(cache) > limit THEN trimOld(Tail(cache), limit) ELSE cache

LRUset(cache, key, limit) == trimOld(Append(RemoveKey(cache, key), key), limit)

toJSON(cache) == [i \in 1..Len(cache) |-> <<cache[i], TRUE>>]

RECURSIVE setAll(_, _, _)
setAll(cache, data, limit) ==
    IF data = <<>> THEN cache
    ELSE setAll(LRUset(cache, Head(data)[1], limit), Tail(data), limit)

fromJSON(data, limit) == setAll(<<>>, data, limit)

(* ------------------------- storage and JSON ---------------------------- *)
Missing == [kind |-> "missing", data |-> <<>>]
Malformed == [kind |-> "malformed", data |-> <<>>]
JSONstringify(data) == [kind |-> "json", data |-> data]

storageGet(store, scope) ==
    IF store[scope].kind = "missing" THEN JSONstringify(<<>>) ELSE store[scope]

JSONparse(text) ==
    IF text.kind = "json" THEN [ok |-> TRUE, value |-> text.data]
    ELSE [ok |-> FALSE, value |-> <<>>]

(* Payloads an earlier session can have left in a slot. *)
SmallIds == <<2, 1>>
FullIds == [i \in 1..10 |-> i + 1]
Payloads == {Missing, Malformed, JSONstringify(toJSON(SmallIds)),
             JSONstringify(toJSON(FullIds))}

(* ------------------------- language registry --------------------------- *)
isRegisteredLanguageId(language) == language \in Langs

URIfile(language) == [name |-> "file", ext |-> language]

guessLanguageIdByFilepathOrFirstLine(resource) ==
    IF resource.ext = GuessableCode THEN 2 ELSE Null

(* Variant: the isRegisteredLanguageId test is skipped. *)
getLanguageId_alwaysGuess(language) ==
    IF language = NoCode
    THEN [id |-> NoLang, checked |-> FALSE, probes |-> {}]
    ELSE LET guess == guessLanguageIdByFilepathOrFirstLine(URIfile(language))
         IN [id |-> IF guess = Null THEN NoLang ELSE guess,
             checked |-> FALSE,
             probes |-> {URIfile(language)}]

(* getLanguageId: the id, and which registry operations it consulted. *)
getLanguageId(language) ==
    IF language = NoCode
    THEN [id |-> NoLang, checked |-> FALSE, probes |-> {}]
    ELSE IF isRegisteredLanguageId(language)
    THEN [id |-> language, checked |-> TRUE, probes |-> {}]
    ELSE LET guess == guessLanguageIdByFilepathOrFirstLine(URIfile(language))
         IN [id |-> IF guess = Null THEN NoLang ELSE guess,
             checked |-> TRUE,
             probes |-> {URIfile(language)}]

(* ---------------------------- bias map --------------------------------- *)
EmptyBiases == [l \in {} |-> 0]

(* Variant: biases[lang] = weight, dropping what earlier sources added. *)
addBias_overwrite(biases, langs, weight) ==
    [l \in (DOMAIN biases) \cup langs |->
        IF l \in langs THEN weight ELSE biases[l]]

(* One forEach of getLanguageBiases:                                       *)
(* biases[lang] = (biases[lang] ?? 0) + weight for every lang of a source. *)
addBias(biases, langs, weight) ==
    [l \in (DOMAIN biases) \cup langs |->
        IF l \in langs
        THEN (IF l \in DOMAIN biases THEN biases[l] ELSE 0) + weight
        ELSE biases[l]]

computeBiases(session, workspace, historyWorkspace, historyGlobal) ==
    addBias(addBias(addBias(addBias(EmptyBiases,
        session, sessionWeight),
        workspace, workspaceWeight),
        keys(historyWorkspace), historicalWorkspaceWeight),
        keys(historyGlobal), historicalGlobalWeight)

getLanguageBiases ==
    computeBiases(sessionOpenedLanguageIds, workspaceLanguageIds,
                  historicalWorkspaceOpenedLanguageIds,
                  historicalGlobalOpenedLanguageIds)

NoBiases == [present |-> FALSE, map |-> EmptyBiases]

(* ----------------------- construction (load) --------------------------- *)
(* Variant: the second block loads the workspace payload into the          *)
(* workspace cache, with the workspace limit.                              *)
initEditorOpenedListeners_ownScope(store) ==
    LET globalLangHistroyData == JSONparse(storageGet(store, "global"))
        workspaceLangHistroyData == JSONparse(storageGet(store, "workspace"))
    IN [historicalGlobalOpenedLanguageIds |->
            IF globalLangHistroyData.ok
            THEN fromJSON(globalLangHistroyData.value, historicalGlobalLimit)
            ELSE <<>>,
        historicalWorkspaceOpenedLanguageIds |->
            IF workspaceLangHistroyData.ok
            THEN fromJSON(workspaceLangHistroyData.value, historicalWorkspaceLimit)
            ELSE <<>>]

(* initEditorOpenedListeners: the two history caches after the two         *)
(* try/catch load blocks; both blocks assign the global cache.             *)
initEditorOpenedListeners(store) ==
    LET globalLangHistroyData == JSONparse(storageGet(store, "global"))
        afterGlobal ==
            IF globalLangHistroyData.ok
            THEN fromJSON(globalLangHistroyData.value, historicalGlobalLimit)
            ELSE <<>>
        workspaceLangHistroyData == JSONparse(storageGet(store, "workspace"))
        afterWorkspace ==
            IF workspaceLangHistroyData.ok
            THEN fromJSON(workspaceLangHistroyData.value, historicalGlobalLimit)
            ELSE afterGlobal
    IN [historicalGlobalOpenedLanguageIds |-> afterWorkspace,
        historicalWorkspaceOpenedLanguageIds |-> <<>>]

(* The worker client as the service constructs it (lines 61-77): the four  *)
(* URIs become its readonly fields (lines 215-218).  The packaging variant *)
(* (isBuilt && !isWeb) picks the module location; the model names the      *)
(* module and keeps the path.                                              *)
LanguageDetectionWorkerClient ==
    [indexJsUri |-> "vscode-languagedetection/dist/lib/index.js",
     modelJsonUri |-> "vscode-languagedetection/model/model.json",
     weightsUri |-> "vscode-languagedetection/model/group1-shard1of1.bin",
     regexpModelUri |-> "vscode-regexp-languagedetection/dist/index.js"]

(* What a query returned: the method asked, who handled it, and the value  *)
(* by kind (a URI, the enablement, the telemetry event logged).            *)
NoReturn ==
    [method |-> "none", handledBy |-> "none", uri |-> "none",
     enabled |-> FALSE, logged |-> <<>>]

(* The expression row before renderInputBox: name and value shown, the     *)
(* input box container hidden, the expression being edited selected in the *)
(* view model.  trigger is what called done first, runs counts the         *)
(* executions of its body, onFinish lists the <<value, success>> reports,  *)
(* blurInDispose tells that a blur reached the listener while the input    *)
(* box was being disposed.                                                 *)
NoInputBox ==
    [pc |-> "none",
     nameElement |-> "initial", valueElement |-> "initial",
     inputBoxContainer |-> "none",
     value |-> "initialValue", toDispose |-> "none",
     didCall |-> FALSE, trigger |-> "none", runs |-> 0,
     blurInDispose |-> FALSE,
     selectedExpression |-> "expression", onFinish |-> <<>>]

(* A call: its position; the setting it read; whether it started the       *)
(* workspace resolution; the bias argument it computed; whether            *)
(* _withSyncedResources has completed; the worker it got; the remote       *)
(* detect requests it issued and the bias argument they carried; the       *)
(* worker's answer, the result and the registry operations used; the       *)
(* error it rejected with.                                                 *)
IdleCall ==
    [pc |-> "idle", useHistory |-> FALSE, triggered |-> FALSE,
     biases |-> NoBiases, synced |-> FALSE, worker |-> 0,
     requests |-> 0, delivered |-> NoBiases,
     raw |-> NoCode, result |-> NoLang, checked |-> FALSE, probes |-> {},
     error |-> "none"]

Init ==
    /\ storage \in [Scopes -> Payloads]
    /\ storeWrites = [s \in Scopes |-> 0]
    /\ activeTextEditorLanguageId = NoLang
    /\ editorEvents = 0
    /\ sessionOpenedLanguageIds = {}
    /\ workspaceLanguageIds = {}
    /\ hasResolvedWorkspaceLanguageIds = FALSE
    /\ historicalGlobalOpenedLanguageIds =
           initEditorOpenedListeners(storage).historicalGlobalOpenedLanguageIds
    /\ historicalWorkspaceOpenedLanguageIds =
           initEditorOpenedListeners(storage).historicalWorkspaceOpenedLanguageIds
    /\ enumeration = "idle"
    /\ enumerationStarts = 0
    /\ workerPromise = [state |-> "undefined", instance |-> 0]
    /\ workerCreations = 0
    /\ calls = [c \in CallIds |-> IdleCall]
    /\ clientUris = LanguageDetectionWorkerClient
    /\ returned = NoReturn
    /\ running = TRUE
    /\ inputBox = NoInputBox

(* ------------------- editor activation (lines 154-163) ----------------- *)
storageStore(store, scope, value) == [store EXCEPT ![scope] = value]

(* Variant: the global cache is not touched. *)
onDidActiveEditorChange_globalUntouched(activeLanguage) ==
    /\ editorEvents < MaxEvents
    /\ editorEvents' = editorEvents + 1
    /\ activeTextEditorLanguageId' = activeLanguage
    /\ IF activeLanguage # NoLang
       THEN /\ sessionOpenedLanguageIds' =
                   sessionOpenedLanguageIds \cup {activeLanguage}
            /\ historicalGlobalOpenedLanguageIds' =
                   historicalGlobalOpenedLanguageIds
            /\ historicalWorkspaceOpenedLanguageIds' =
                   LRUset(historicalWorkspaceOpenedLanguageIds, activeLanguage,
                          historicalWorkspaceLimit)
            /\ storage' =
                   storageStore(
                       storageStore(storage, "global",
                           JSONstringify(toJSON(historicalGlobalOpenedLanguageIds'))),
                       "workspace",
                       JSONstringify(toJSON(historicalWorkspaceOpenedLanguageIds')))
            /\ storeWrites' = [s \in Scopes |-> storeWrites[s] + 1]
       ELSE UNCHANGED <<sessionOpenedLanguageIds,
                        historicalGlobalOpenedLanguageIds,
                        historicalWorkspaceOpenedLanguageIds,
                        storage, storeWrites>>
    /\ UNCHANGED <<workspaceLanguageIds, hasResolvedWorkspaceLanguageIds,
                   enumeration, enumerationStarts, workerPromise,
                   workerCreations, calls>>
    /\ UNCHANGED <<clientUris, returned, running, inputBox>>

(* Variant: the workspace slot is written from the cache as it was before  *)
(* the touch.                                                              *)
onDidActiveEditorChange_staleWrite(activeLanguage) ==
    /\ editorEvents < MaxEvents
    /\ editorEvents' = editorEvents + 1
    /\ activeTextEditorLanguageId' = activeLanguage
    /\ IF activeLanguage # NoLang
       THEN /\ sessionOpenedLanguageIds' =
                   sessionOpenedLanguageIds \cup {activeLanguage}
            /\ historicalGlobalOpenedLanguageIds' =
                   LRUset(historicalGlobalOpenedLanguageIds, activeLanguage,
                          historicalGlobalLimit)
            /\ historicalWorkspaceOpenedLanguageIds' =
                   LRUset(historicalWorkspaceOpenedLanguageIds, activeLanguage,
                          historicalWorkspaceLimit)
            /\ storage' =
                   storageStore(
                       storageStore(storage, "global",
                           JSONstringify(toJSON(historicalGlobalOpenedLanguageIds'))),
                       "workspace",
                       JSONstringify(toJSON(historicalWorkspaceOpenedLanguageIds)))
            /\ storeWrites' = [s \in Scopes |-> storeWrites[s] + 1]
       ELSE UNCHANGED <<sessionOpenedLanguageIds,
                        historicalGlobalOpenedLanguageIds,
                        historicalWorkspaceOpenedLanguageIds,
                        storage, storeWrites>>
    /\ UNCHANGED <<workspaceLanguageIds, hasResolvedWorkspaceLanguageIds,
                   enumeration, enumerationStarts, workerPromise,
                   workerCreations, calls>>
    /\ UNCHANGED <<clientUris, returned, running, inputBox>>

(* The handler: the editor service has made activeLanguage the active      *)
(* editor's language (NoLang when there is none) and fires the event.      *)
onDidActiveEditorChange(activeLanguage) ==
    /\ editorEvents < MaxEvents
    /\ editorEvents' = editorEvents + 1
    /\ activeTextEditorLanguageId' = activeLanguage
    /\ IF activeLanguage # NoLang
       THEN /\ sessionOpenedLanguageIds' =
                   sessionOpenedLanguageIds \cup {activeLanguage}
            /\ historicalGlobalOpenedLanguageIds' =
                   LRUset(historicalGlobalOpenedLanguageIds, activeLanguage,
                          historicalGlobalLimit)
            /\ historicalWorkspaceOpenedLanguageIds' =
                   LRUset(historicalWorkspaceOpenedLanguageIds, activeLanguage,
                          historicalWorkspaceLimit)
            /\ storage' =
                   storageStore(
                       storageStore(storage, "global",
                           JSONstringify(toJSON(historicalGlobalOpenedLanguageIds'))),
                       "workspace",
                       JSONstringify(toJSON(historicalWorkspaceOpenedLanguageIds')))
            /\ storeWrites' = [s \in Scopes |-> storeWrites[s] + 1]
       ELSE UNCHANGED <<sessionOpenedLanguageIds,
                        historicalGlobalOpenedLanguageIds,
                        historicalWorkspaceOpenedLanguageIds,
                        storage, storeWrites>>
    /\ UNCHANGED <<workspaceLanguageIds, hasResolvedWorkspaceLanguageIds,
                   enumeration, enumerationStarts, workerPromise,
                   workerCreations, calls>>
    /\ UNCHANGED <<clientUris, returned, running, inputBox>>

(* Variant: the workspace slot is stored first. *)
storeCalls_workspaceFirst(global, workspace) ==
    << <<"workspace", JSONstringify(toJSON(workspace))>>,
       <<"global", JSONstringify(toJSON(global))>> >>

(* The two store calls of lines 160-161, in program order. *)
storeCalls(global, workspace) ==
    << <<"global", JSONstringify(toJSON(global))>>,
       <<"workspace", JSONstringify(toJSON(workspace))>> >>

RECURSIVE applyStores(_, _)
applyStores(store, writes) ==
    IF writes = <<>> THEN store
    ELSE applyStores(storageStore(store, writes[1][1], writes[1][2]),
                     Tail(writes))

(* The process dies inside the handler of an editor change with a language *)
(* id, after lines 157-159 and after `done` of the store calls: the slots  *)
(* keep what was stored so far and nothing runs afterwards.                *)
crashInTouch(activeLanguage, done) ==
    /\ running
    /\ editorEvents < MaxEvents
    /\ activeLanguage # NoLang
    /\ running' = FALSE
    /\ editorEvents' = editorEvents + 1
    /\ activeTextEditorLanguageId' = activeLanguage
    /\ sessionOpenedLanguageIds' = sessionOpenedLanguageIds \cup {activeLanguage}
    /\ historicalGlobalOpenedLanguageIds' =
           LRUset(historicalGlobalOpenedLanguageIds, activeLanguage,
                  historicalGlobalLimit)
    /\ historicalWorkspaceOpenedLanguageIds' =
           LRUset(historicalWorkspaceOpenedLanguageIds, activeLanguage,
                  historicalWorkspaceLimit)
    /\ LET writes == SubSeq(storeCalls(historicalGlobalOpenedLanguageIds',
                                       historicalWorkspaceOpenedLanguageIds'),
                            1, done)
       IN /\ storage' = applyStores(storage, writes)
          /\ storeWrites' =
                 [s \in Scopes |->
                     storeWrites[s]
                     + Cardinality({i \in 1..done : writes[i][1] = s})]
    /\ UNCHANGED <<workspaceLanguageIds, hasResolvedWorkspaceLanguageIds,
                   enumeration, enumerationStarts, workerPromise,
                   workerCreations, calls>>
    /\ UNCHANGED <<clientUris, returned, inputBox>>

CrashInTouch ==
    \E activeLanguage \in EditorLangs,
       done \in 0..Len(storeCalls(<<>>, <<>>)) :
        crashInTouch(activeLanguage, done)

ActiveEditorChange ==
    \E activeLanguage \in EditorLangs \cup {NoLang} :
        onDidActiveEditorChange(activeLanguage)

(* The editor switching between no language and one language. *)
ActiveEditorChangeFrame ==
    \E activeLanguage \in {NoLang, 1} : onDidActiveEditorChange(activeLanguage)

(* ------------- workspace language resolution (lines 83-93) ------------- *)
(* The ids the .then callback adds for the enumerated file extensions. *)
resolvedLanguageIds(extensions) ==
    {getLanguageId(ext).id : ext \in extensions} \ {NoLang}

workspaceFileExtensionsResolved(extensions) ==
    /\ enumeration = "pending"
    /\ enumeration' = "done"
    /\ workspaceLanguageIds' =
           workspaceLanguageIds \cup resolvedLanguageIds(extensions)
    /\ UNCHANGED <<storage, storeWrites, activeTextEditorLanguageId,
                   editorEvents, sessionOpenedLanguageIds,
                   hasResolvedWorkspaceLanguageIds,
                   historicalGlobalOpenedLanguageIds,
                   historicalWorkspaceOpenedLanguageIds, enumerationStarts,
                   workerPromise, workerCreations, calls>>
    /\ UNCHANGED <<clientUris, returned, running, inputBox>>

WorkspaceResolved ==
    \E extensions \in SUBSET WorkspaceExtensions :
        workspaceFileExtensionsResolved(extensions)

(* Variant: a failed enumeration clears the flag, so that the next call    *)
(* with the setting enabled starts another one.                            *)
workspaceFileExtensionsFailed_retry ==
    /\ enumeration = "pending"
    /\ enumeration' = "failed"
    /\ hasResolvedWorkspaceLanguageIds' = FALSE
    /\ UNCHANGED <<storage, storeWrites, activeTextEditorLanguageId,
                   editorEvents, sessionOpenedLanguageIds, workspaceLanguageIds,
                   historicalGlobalOpenedLanguageIds,
                   historicalWorkspaceOpenedLanguageIds, enumerationStarts,
                   workerPromise, workerCreations, calls>>
    /\ UNCHANGED <<clientUris, returned, running, inputBox>>

(* The enumeration rejects: the promise of line 86 has no rejection        *)
(* handler, the .then callback does not run.                               *)
workspaceFileExtensionsFailed ==
    /\ enumeration = "pending"
    /\ enumeration' = "failed"
    /\ UNCHANGED <<storage, storeWrites, activeTextEditorLanguageId,
                   editorEvents, sessionOpenedLanguageIds, workspaceLanguageIds,
                   hasResolvedWorkspaceLanguageIds,
                   historicalGlobalOpenedLanguageIds,
                   historicalWorkspaceOpenedLanguageIds, enumerationStarts,
                   workerPromise, workerCreations, calls>>
    /\ UNCHANGED <<clientUris, returned, running, inputBox>>

(* ---------------- detectLanguage, service (lines 128-141) -------------- *)
(* Variant: hasResolvedWorkspaceLanguageIds is not set when the resolution *)
(* starts.                                                                 *)
detectLanguage_flagNotSet(c, useHistory) ==
    /\ calls[c].pc = "idle"
    /\ \A d \in CallIds : d < c => calls[d].pc # "idle"
    /\ IF useHistory /\ ~hasResolvedWorkspaceLanguageIds
       THEN /\ hasResolvedWorkspaceLanguageIds' = hasResolvedWorkspaceLanguageIds
            /\ enumeration' = "pending"
            /\ enumerationStarts' = enumerationStarts + 1
       ELSE UNCHANGED <<hasResolvedWorkspaceLanguageIds, enumeration,
                        enumerationStarts>>
    /\ calls' = [calls EXCEPT ![c] =
           [@ EXCEPT !.pc = "syncing",
                     !.useHistory = useHistory,
                     !.triggered = (useHistory /\ ~hasResolvedWorkspaceLanguageIds),
                     !.biases = IF useHistory
                                THEN [present |-> TRUE, map |-> getLanguageBiases]
                                ELSE NoBiases]]
    /\ UNCHANGED <<storage, storeWrites, activeTextEditorLanguageId,
                   editorEvents, sessionOpenedLanguageIds, workspaceLanguageIds,
                   historicalGlobalOpenedLanguageIds,
                   historicalWorkspaceOpenedLanguageIds, workerPromise,
                   workerCreations>>
    /\ UNCHANGED <<clientUris, returned, running, inputBox>>

(* Variant: the biases are computed and passed whatever the setting. *)
detectLanguage_alwaysBiases(c, useHistory) ==
    /\ calls[c].pc = "idle"
    /\ \A d \in CallIds : d < c => calls[d].pc # "idle"
    /\ IF useHistory /\ ~hasResolvedWorkspaceLanguageIds
       THEN /\ hasResolvedWorkspaceLanguageIds' = TRUE
            /\ enumeration' = "pending"
            /\ enumerationStarts' = enumerationStarts + 1
       ELSE UNCHANGED <<hasResolvedWorkspaceLanguageIds, enumeration,
                        enumerationStarts>>
    /\ calls' = [calls EXCEPT ![c] =
           [@ EXCEPT !.pc = "syncing",
                     !.useHistory = useHistory,
                     !.triggered = (useHistory /\ ~hasResolvedWorkspaceLanguageIds),
                     !.biases = [present |-> TRUE, map |-> getLanguageBiases]]]
    /\ UNCHANGED <<storage, storeWrites, activeTextEditorLanguageId,
                   editorEvents, sessionOpenedLanguageIds, workspaceLanguageIds,
                   historicalGlobalOpenedLanguageIds,
                   historicalWorkspaceOpenedLanguageIds, workerPromise,
                   workerCreations>>
    /\ UNCHANGED <<clientUris, returned, running, inputBox>>

(* Variant: line 131 tests only the flag, not the setting. *)
detectLanguage_resolvesWhenDisabled(c, useHistory) ==
    /\ calls[c].pc = "idle"
    /\ \A d \in CallIds : d < c => calls[d].pc # "idle"
    /\ IF ~hasResolvedWorkspaceLanguageIds
       THEN /\ hasResolvedWorkspaceLanguageIds' = TRUE
            /\ enumeration' = "pending"
            /\ enumerationStarts' = enumerationStarts + 1
       ELSE UNCHANGED <<hasResolvedWorkspaceLanguageIds, enumeration,
                        enumerationStarts>>
    /\ calls' = [calls EXCEPT ![c] =
           [@ EXCEPT !.pc = "syncing",
                     !.useHistory = useHistory,
                     !.triggered = ~hasResolvedWorkspaceLanguageIds,
                     !.biases = IF useHistory
                                THEN [present |-> TRUE, map |-> getLanguageBiases]
                                ELSE NoBiases]]
    /\ UNCHANGED <<storage, storeWrites, activeTextEditorLanguageId,
                   editorEvents, sessionOpenedLanguageIds, workspaceLanguageIds,
                   historicalGlobalOpenedLanguageIds,
                   historicalWorkspaceOpenedLanguageIds, workerPromise,
                   workerCreations>>
    /\ UNCHANGED <<clientUris, returned, running, inputBox>>

(* Variant: the call awaits the enumeration it starts, so the ids are in   *)
(* the workspace set before line 134 computes the biases.                  *)
detectLanguage_awaitsEnumeration(c, useHistory) ==
    /\ calls[c].pc = "idle"
    /\ \A d \in CallIds : d < c => calls[d].pc # "idle"
    /\ IF useHistory /\ ~hasResolvedWorkspaceLanguageIds
       THEN /\ hasResolvedWorkspaceLanguageIds' = TRUE
            /\ enumeration' = "done"
            /\ enumerationStarts' = enumerationStarts + 1
            /\ workspaceLanguageIds' =
                   workspaceLanguageIds \cup resolvedLanguageIds(WorkspaceExtensions)
       ELSE UNCHANGED <<hasResolvedWorkspaceLanguageIds, enumeration,
                        enumerationStarts, workspaceLanguageIds>>
    /\ calls' = [calls EXCEPT ![c] =
           [@ EXCEPT !.pc = "syncing",
                     !.useHistory = useHistory,
                     !.triggered = (useHistory /\ ~hasResolvedWorkspaceLanguageIds),
                     !.biases = IF useHistory
                                THEN [present |-> TRUE,
                                      map |-> computeBiases(
                                          sessionOpenedLanguageIds,
                                          workspaceLanguageIds',
                                          historicalWorkspaceOpenedLanguageIds,
                                          historicalGlobalOpenedLanguageIds)]
                                ELSE NoBiases]]
    /\ UNCHANGED <<storage, storeWrites, activeTextEditorLanguageId,
                   editorEvents, sessionOpenedLanguageIds,
                   historicalGlobalOpenedLanguageIds,
                   historicalWorkspaceOpenedLanguageIds, workerPromise,
                   workerCreations>>
    /\ UNCHANGED <<clientUris, returned, running, inputBox>>

(* The call up to its first suspension: the configuration read, the        *)
(* one-time start of the workspace resolution, the bias computation, and   *)
(* the start of the resource synchronisation in the worker client.         *)
(* useHistory is the value read from the configuration; call ids are       *)
(* given out in the order of issue.                                        *)
detectLanguage(c, useHistory) ==
    /\ calls[c].pc = "idle"
    /\ \A d \in CallIds : d < c => calls[d].pc # "idle"
    /\ IF useHistory /\ ~hasResolvedWorkspaceLanguageIds
       THEN /\ hasResolvedWorkspaceLanguageIds' = TRUE
            /\ enumeration' = "pending"
            /\ enumerationStarts' = enumerationStarts + 1
       ELSE UNCHANGED <<hasResolvedWorkspaceLanguageIds, enumeration,
                        enumerationStarts>>
    /\ calls' = [calls EXCEPT ![c] =
           [@ EXCEPT !.pc = "syncing",
                     !.useHistory = useHistory,
                     !.triggered = (useHistory /\ ~hasResolvedWorkspaceLanguageIds),
                     !.biases = IF useHistory
                                THEN [present |-> TRUE, map |-> getLanguageBiases]
                                ELSE NoBiases]]
    /\ UNCHANGED <<storage, storeWrites, activeTextEditorLanguageId,
                   editorEvents, sessionOpenedLanguageIds, workspaceLanguageIds,
                   historicalGlobalOpenedLanguageIds,
                   historicalWorkspaceOpenedLanguageIds, workerPromise,
                   workerCreations>>
    /\ UNCHANGED <<clientUris, returned, running, inputBox>>

DetectLanguage ==
    \E c \in CallIds, useHistory \in BOOLEAN : detectLanguage(c, useHistory)

(* ------------- worker client (lines 224-242, 286-289) ------------------ *)
(* Variant: no test of this.workerPromise, a worker is made on each call. *)
getOrCreateLanguageDetectionWorker_noMemo(promise, created) ==
    [state |-> IF created THEN "resolved" ELSE "rejected",
     instance |-> workerCreations + 1]

(* Variant: only a fulfilled promise is kept, a rejected one is replaced   *)
(* by a new creation attempt.                                              *)
getOrCreateLanguageDetectionWorker_retry(promise, created) ==
    IF promise.state = "resolved"
    THEN promise
    ELSE [state |-> IF created THEN "resolved" ELSE "rejected",
          instance |-> workerCreations + 1]

(* _getOrCreateLanguageDetectionWorker: the memoized promise after the     *)
(* call; created tells whether the constructor succeeded when it ran.      *)
getOrCreateLanguageDetectionWorker(promise, created) ==
    IF promise.state # "undefined"
    THEN promise
    ELSE [state |-> IF created THEN "resolved" ELSE "rejected",
          instance |-> workerCreations + 1]

(* Variant: line 287 without its await, _getProxy runs while the           *)
(* synchronisation is still in flight.                                     *)
syncedResources_notAwaited(c, created) ==
    /\ calls[c].pc = "syncing"
    /\ workerPromise' = getOrCreateLanguageDetectionWorker(workerPromise, created)
    /\ workerCreations' =
           IF workerPromise' # workerPromise
           THEN workerCreations + 1 ELSE workerCreations
    /\ calls' = [calls EXCEPT ![c] =
           IF workerPromise'.state = "resolved"
           THEN [@ EXCEPT !.pc = "proxy", !.worker = workerPromise'.instance]
           ELSE [@ EXCEPT !.pc = "failed", !.error = "create"]]
    /\ UNCHANGED <<storage, storeWrites, activeTextEditorLanguageId,
                   editorEvents, sessionOpenedLanguageIds, workspaceLanguageIds,
                   hasResolvedWorkspaceLanguageIds,
                   historicalGlobalOpenedLanguageIds,
                   historicalWorkspaceOpenedLanguageIds, enumeration,
                   enumerationStarts>>
    /\ UNCHANGED <<clientUris, returned, running, inputBox>>

(* _withSyncedResources has completed: _getProxy runs. *)
syncedResources(c, created) ==
    /\ calls[c].pc = "syncing"
    /\ workerPromise' = getOrCreateLanguageDetectionWorker(workerPromise, created)
    /\ workerCreations' =
           IF workerPromise' # workerPromise
           THEN workerCreations + 1 ELSE workerCreations
    /\ calls' = [calls EXCEPT ![c] =
           IF workerPromise'.state = "resolved"
           THEN [@ EXCEPT !.pc = "proxy", !.synced = TRUE,
                          !.worker = workerPromise'.instance]
           ELSE [@ EXCEPT !.pc = "failed", !.synced = TRUE,
                          !.error = "create"]]
    /\ UNCHANGED <<storage, storeWrites, activeTextEditorLanguageId,
                   editorEvents, sessionOpenedLanguageIds, workspaceLanguageIds,
                   hasResolvedWorkspaceLanguageIds,
                   historicalGlobalOpenedLanguageIds,
                   historicalWorkspaceOpenedLanguageIds, enumeration,
                   enumerationStarts>>
    /\ UNCHANGED <<clientUris, returned, running, inputBox>>

SyncedResources ==
    \E c \in CallIds, created \in BOOLEAN : syncedResources(c, created)

(* _withSyncedResources rejects: the await of line 287 throws. *)
syncFailed(c) ==
    /\ calls[c].pc = "syncing"
    /\ calls' = [calls EXCEPT ![c] = [@ EXCEPT !.pc = "failed", !.error = "sync"]]
    /\ UNCHANGED <<storage, storeWrites, activeTextEditorLanguageId,
                   editorEvents, sessionOpenedLanguageIds, workspaceLanguageIds,
                   hasResolvedWorkspaceLanguageIds,
                   historicalGlobalOpenedLanguageIds,
                   historicalWorkspaceOpenedLanguageIds, enumeration,
                   enumerationStarts, workerPromise, workerCreations>>
    /\ UNCHANGED <<clientUris, returned, running, inputBox>>

SyncFailed == \E c \in CallIds : syncFailed(c)

(* Variant: the bias argument is computed when the request is issued. *)
proxyObtained_recomputed(c) ==
    /\ calls[c].pc = "proxy"
    /\ calls' = [calls EXCEPT ![c] =
           [@ EXCEPT !.pc = "detecting",
                     !.requests = @ + 1,
                     !.delivered = IF calls[c].useHistory
                                   THEN [present |-> TRUE, map |-> getLanguageBiases]
                                   ELSE NoBiases]]
    /\ UNCHANGED <<storage, storeWrites, activeTextEditorLanguageId,
                   editorEvents, sessionOpenedLanguageIds, workspaceLanguageIds,
                   hasResolvedWorkspaceLanguageIds,
                   historicalGlobalOpenedLanguageIds,
                   historicalWorkspaceOpenedLanguageIds, enumeration,
                   enumerationStarts, workerPromise, workerCreations>>
    /\ UNCHANGED <<clientUris, returned, running, inputBox>>

(* The proxy object is available: the remote detectLanguage is issued. *)
proxyObtained(c) ==
    /\ calls[c].pc = "proxy"
    /\ calls' = [calls EXCEPT ![c] =
           [@ EXCEPT !.pc = "detecting",
                     !.requests = @ + 1,
                     !.delivered = calls[c].biases]]
    /\ UNCHANGED <<storage, storeWrites, activeTextEditorLanguageId,
                   editorEvents, sessionOpenedLanguageIds, workspaceLanguageIds,
                   hasResolvedWorkspaceLanguageIds,
                   historicalGlobalOpenedLanguageIds,
                   historicalWorkspaceOpenedLanguageIds, enumeration,
                   enumerationStarts, workerPromise, workerCreations>>
    /\ UNCHANGED <<clientUris, returned, running, inputBox>>

ProxyObtained == \E c \in CallIds : proxyObtained(c)

(* The worker's answer arrives; lines 137-140 map it to a language id. *)
resolveLanguage(language) ==
    IF language # NoCode
    THEN getLanguageId(language)
    ELSE [id |-> NoLang, checked |-> FALSE, probes |-> {}]

(* Variant: the detected language is remembered as an opened one. *)
workerReplied_remembered(c, language) ==
    /\ calls[c].pc = "detecting"
    /\ calls' = [calls EXCEPT ![c] =
           [@ EXCEPT !.pc = "done",
                     !.raw = language,
                     !.result = resolveLanguage(language).id,
                     !.checked = resolveLanguage(language).checked,
                     !.probes = resolveLanguage(language).probes]]
    /\ sessionOpenedLanguageIds' =
           sessionOpenedLanguageIds \cup ({resolveLanguage(language).id} \ {NoLang})
    /\ UNCHANGED <<storage, storeWrites, activeTextEditorLanguageId,
                   editorEvents, workspaceLanguageIds,
                   hasResolvedWorkspaceLanguageIds,
                   historicalGlobalOpenedLanguageIds,
                   historicalWorkspaceOpenedLanguageIds, enumeration,
                   enumerationStarts, workerPromise, workerCreations>>
    /\ UNCHANGED <<clientUris, returned, running, inputBox>>

workerReplied(c, language) ==
    /\ calls[c].pc = "detecting"
    /\ calls' = [calls EXCEPT ![c] =
           [@ EXCEPT !.pc = "done",
                     !.raw = language,
                     !.result = resolveLanguage(language).id,
                     !.checked = resolveLanguage(language).checked,
                     !.probes = resolveLanguage(language).probes]]
    /\ UNCHANGED <<storage, storeWrites, activeTextEditorLanguageId,
                   editorEvents, sessionOpenedLanguageIds, workspaceLanguageIds,
                   hasResolvedWorkspaceLanguageIds,
                   historicalGlobalOpenedLanguageIds,
                   historicalWorkspaceOpenedLanguageIds, enumeration,
                   enumerationStarts, workerPromise, workerCreations>>
    /\ UNCHANGED <<clientUris, returned, running, inputBox>>

WorkerReplied ==
    \E c \in CallIds, language \in RawCodes \cup {NoCode} :
        workerReplied(c, language)

(* Variant: a failed remote request is issued again. *)
remoteFailed_retried(c) ==
    /\ calls[c].pc = "detecting"
    /\ calls' = [calls EXCEPT ![c] = [@ EXCEPT !.requests = @ + 1]]
    /\ UNCHANGED <<storage, storeWrites, activeTextEditorLanguageId,
                   editorEvents, sessionOpenedLanguageIds, workspaceLanguageIds,
                   hasResolvedWorkspaceLanguageIds,
                   historicalGlobalOpenedLanguageIds,
                   historicalWorkspaceOpenedLanguageIds, enumeration,
                   enumerationStarts, workerPromise, workerCreations>>
    /\ UNCHANGED <<clientUris, returned, running, inputBox>>

(* The remote detectLanguage rejects: the await of line 135 throws. *)
remoteFailed(c) ==
    /\ calls[c].pc = "detecting"
    /\ calls' = [calls EXCEPT ![c] = [@ EXCEPT !.pc = "failed", !.error = "remote"]]
    /\ UNCHANGED <<storage, storeWrites, activeTextEditorLanguageId,
                   editorEvents, sessionOpenedLanguageIds, workspaceLanguageIds,
                   hasResolvedWorkspaceLanguageIds,
                   historicalGlobalOpenedLanguageIds,
                   historicalWorkspaceOpenedLanguageIds, enumeration,
                   enumerationStarts, workerPromise, workerCreations>>
    /\ UNCHANGED <<clientUris, returned, running, inputBox>>

RemoteFailed == \E c \in CallIds : remoteFailed(c)

(* --------------------- isEnabledForLanguage (lines 95-97) -------------- *)
(* setting is the configuration value of the enablement key for the        *)
(* language.                                                               *)
isEnabledForLanguage(languageId, setting) == languageId # NoLang /\ setting

isEnabledForLanguageCalled(languageId, setting) ==
    /\ returned' = [NoReturn EXCEPT
           !.method = "isEnabledForLanguage",
           !.handledBy = "service",
           !.enabled = isEnabledForLanguage(languageId, setting)]
    /\ UNCHANGED <<storage, storeWrites, activeTextEditorLanguageId,
                   editorEvents, sessionOpenedLanguageIds, workspaceLanguageIds,
                   hasResolvedWorkspaceLanguageIds,
                   historicalGlobalOpenedLanguageIds,
                   historicalWorkspaceOpenedLanguageIds, enumeration,
                   enumerationStarts, workerPromise, workerCreations, calls>>
    /\ UNCHANGED <<clientUris, running, inputBox>>

IsEnabledForLanguage ==
    \E languageId \in {NoLang, 1}, setting \in BOOLEAN :
        isEnabledForLanguageCalled(languageId, setting)

(* ------------------ foreign host requests (lines 244-284) -------------- *)
HostMethods ==
    {"getIndexJsUri", "getModelJsonUri", "getWeightsUri", "getRegexpModelUri",
     "sendTelemetryEvent"}

(* Method names the client does not handle, two of them close to handled   *)
(* ones.                                                                   *)
OtherMethods == {"getModelUri", "sendTelemetry"}

(* args of a sendTelemetryEvent request: languages, confidences, timeSpent *)
TelemetryArgs == {<<<<1, 2>>, <<9, 1>>, 5>>}

getIndexJsUri(client) == client.indexJsUri

getModelJsonUri(client) == client.modelJsonUri

getWeightsUri(client) == client.weightsUri

getRegexpModelUri(client) == client.regexpModelUri

(* Array.prototype.join(','): the items with the separator between them. *)
join(items) == [separator |-> ",", items |-> items]

(* The event handed to publicLog2. *)
sendTelemetryEvent(languages, confidences, timeSpent) ==
    [languages |-> join(languages), confidences |-> join(confidences),
     timeSpent |-> timeSpent]

(* Variant: the switch has no case for getRegexpModelUri. *)
fhr_noRegexpCase(client, method, args) ==
    CASE method = "getIndexJsUri" ->
             [NoReturn EXCEPT !.method = method, !.handledBy = "client",
                              !.uri = getIndexJsUri(client)]
      [] method = "getModelJsonUri" ->
             [NoReturn EXCEPT !.method = method, !.handledBy = "client",
                              !.uri = getModelJsonUri(client)]
      [] method = "getWeightsUri" ->
             [NoReturn EXCEPT !.method = method, !.handledBy = "client",
                              !.uri = getWeightsUri(client)]
      [] method = "sendTelemetryEvent" ->
             [NoReturn EXCEPT !.method = method, !.handledBy = "client",
                              !.logged = <<sendTelemetryEvent(
                                              args[1], args[2], args[3])>>]
      [] OTHER ->
             [NoReturn EXCEPT !.method = method, !.handledBy = "base"]

(* fhr: the switch on the method name; the default case forwards to the    *)
(* base class.                                                             *)
fhr(client, method, args) ==
    CASE method = "getIndexJsUri" ->
             [NoReturn EXCEPT !.method = method, !.handledBy = "client",
                              !.uri = getIndexJsUri(client)]
      [] method = "getModelJsonUri" ->
             [NoReturn EXCEPT !.method = method, !.handledBy = "client",
                              !.uri = getModelJsonUri(client)]
      [] method = "getWeightsUri" ->
             [NoReturn EXCEPT !.method = method, !.handledBy = "client",
                              !.uri = getWeightsUri(client)]
      [] method = "getRegexpModelUri" ->
             [NoReturn EXCEPT !.method = method, !.handledBy = "client",
                              !.uri = getRegexpModelUri(client)]
      [] method = "sendTelemetryEvent" ->
             [NoReturn EXCEPT !.method = method, !.handledBy = "client",
                              !.logged = <<sendTelemetryEvent(
                                              args[1], args[2], args[3])>>]
      [] OTHER ->
             [NoReturn EXCEPT !.method = method, !.handledBy = "base"]

foreignHostRequest(method, args) ==
    /\ returned' = fhr(clientUris, method, args)
    /\ UNCHANGED <<storage, storeWrites, activeTextEditorLanguageId,
                   editorEvents, sessionOpenedLanguageIds, workspaceLanguageIds,
                   hasResolvedWorkspaceLanguageIds,
                   historicalGlobalOpenedLanguageIds,
                   historicalWorkspaceOpenedLanguageIds, enumeration,
                   enumerationStarts, workerPromise, workerCreations, calls>>
    /\ UNCHANGED <<clientUris, running, inputBox>>

ForeignHostRequest ==
    \E method \in HostMethods \cup OtherMethods, args \in TelemetryArgs :
        foreignHostRequest(method, args)

(* ------------- renderInputBox (baseDebugView.ts, lines 201-251) -------- *)
InputValues == {"initialValue", "typed"}

Keys == {"Enter", "Escape", "Tab"}

(* functional.once: the wrapped function runs on the first call only; the  *)
(* mark is set before the function runs.                                   *)
once(box) == [run |-> ~box.didCall, box |-> [box EXCEPT !.didCall = TRUE]]

RECURSIVE done(_, _, _, _)
(* Variant: done is the function itself, not wrapped in once. *)
done_notOnce(box, success, finishEditing, blurs) ==
    LET shown == [box EXCEPT !.didCall = TRUE,
                             !.nameElement = "initial",
                             !.valueElement = "initial",
                             !.inputBoxContainer = "none",
                             !.runs = @ + 1]
        value == box.value
        blurred == IF blurs
                   THEN done([shown EXCEPT !.blurInDispose = TRUE],
                             TRUE, TRUE, FALSE)
                   ELSE shown
        disposed == [blurred EXCEPT !.toDispose = "disposed"]
    IN IF finishEditing
       THEN [disposed EXCEPT !.selectedExpression = "undefined",
                             !.onFinish = Append(@, <<value, success>>)]
       ELSE disposed

(* done (lines 213-224).  dispose(toDispose) disposes the input box first, *)
(* while the BLUR listener is still attached: blurs tells whether the      *)
(* browser dispatches a blur to it at that moment, which calls             *)
(* done(true, true) from inside done.                                      *)
done(box, success, finishEditing, blurs) ==
    IF ~once(box).run THEN box
    ELSE LET shown == [once(box).box EXCEPT !.nameElement = "initial",
                                            !.valueElement = "initial",
                                            !.inputBoxContainer = "none",
                                            !.runs = @ + 1]
             value == box.value
             blurred == IF blurs
                        THEN done([shown EXCEPT !.blurInDispose = TRUE],
                                  TRUE, TRUE, FALSE)
                        ELSE shown
             disposed == [blurred EXCEPT !.toDispose = "disposed"]
         IN IF finishEditing
            THEN [disposed EXCEPT !.selectedExpression = "undefined",
                                  !.onFinish = Append(@, <<value, success>>)]
            ELSE disposed

(* What called done first. *)
calledBy(box, by) ==
    IF box.trigger = "none" THEN [box EXCEPT !.trigger = by] ELSE box

(* Lines 202-211 and 226-246: the elements are swapped, the input box is   *)
(* created with the initial value and the listeners are attached.          *)
renderInputBox ==
    /\ inputBox.pc = "none"
    /\ inputBox' = [inputBox EXCEPT
           !.pc = "rendered",
           !.nameElement = "none",
           !.valueElement = "none",
           !.inputBoxContainer = "initial",
           !.value = "initialValue",
           !.toDispose = "attached"]
    /\ UNCHANGED detectionVars

(* The user edits the text of the input box. *)
inputTyped(value) ==
    /\ inputBox.pc = "rendered"
    /\ inputBox.toDispose = "attached"
    /\ inputBox' = [inputBox EXCEPT !.value = value]
    /\ UNCHANGED detectionVars

InputTyped == \E value \in InputValues : inputTyped(value)

(* KEY_DOWN listener (lines 228-236); it runs only while attached. *)
onKeyDown(key, blurs) ==
    /\ inputBox.pc = "rendered"
    /\ inputBox' =
           IF inputBox.toDispose = "attached" /\ key \in {"Escape", "Enter"}
           THEN done(calledBy(inputBox, key), key = "Enter", TRUE, blurs)
           ELSE inputBox
    /\ UNCHANGED detectionVars

OnKeyDown == \E key \in Keys, blurs \in BOOLEAN : onKeyDown(key, blurs)

(* BLUR listener (lines 237-239); it runs only while attached. *)
onBlur ==
    /\ inputBox.pc = "rendered"
    /\ inputBox' =
           IF inputBox.toDispose = "attached"
           THEN done(calledBy(inputBox, "blur"), TRUE, TRUE, FALSE)
           ELSE inputBox
    /\ UNCHANGED detectionVars

(* CLICK listener (lines 240-244): the event is stopped, nothing else. *)
onClick ==
    /\ inputBox.pc = "rendered"
    /\ UNCHANGED inputBox
    /\ UNCHANGED detectionVars

(* dispose of the returned disposable (lines 248-250); the element and the *)
(* template disposal can both reach it.                                    *)
disposeInputBox(blurs) ==
    /\ inputBox.pc = "rendered"
    /\ inputBox' = done(calledBy(inputBox, "dispose"), FALSE, FALSE, blurs)
    /\ UNCHANGED detectionVars

DisposeInputBox == \E blurs \in BOOLEAN : disposeInputBox(blurs)

NextInputBox ==
    \/ renderInputBox
    \/ InputTyped
    \/ OnKeyDown
    \/ onBlur
    \/ onClick
    \/ DisposeInputBox

(* The editor's part: the only writer of the session set, the history    *)
(* caches and the storage slots.                                           *)
NextEditor == ActiveEditorChange

(* The detection part: calls, workspace resolution and the worker.  It     *)
(* reads the history state and never writes it.                            *)
NextDetect ==
    \/ DetectLanguage
    \/ WorkspaceResolved
    \/ workspaceFileExtensionsFailed
    \/ SyncedResources
    \/ SyncFailed
    \/ ProxyObtained
    \/ WorkerReplied
    \/ RemoteFailed

(* The synchronous queries: they read and write none of the above. *)
NextHost ==
    \/ IsEnabledForLanguage
    \/ ForeignHostRequest

Next == NextEditor \/ NextDetect \/ NextHost \/ NextInputBox

Spec == Init /\ [][Next]_vars

(* The construction on a machine with nothing persisted. *)
InitFresh == Init /\ storage = [scope \in Scopes |-> Missing]

(* SpecDeliver: the bias sources and the calls up to the remote request,   *)
(* which carries the bias argument to the worker; the editor switches      *)
(* between no language and one language.                                   *)
NextDeliver ==
    \/ ActiveEditorChangeFrame
    \/ DetectLanguage
    \/ WorkspaceResolved
    \/ workspaceFileExtensionsFailed
    \/ SyncedResources
    \/ SyncFailed
    \/ ProxyObtained

SpecDeliver == Init /\ [][NextDeliver]_vars

(* SpecInputBox: one renderInputBox call and the events that reach it. *)
SpecInputBox == Init /\ [][NextInputBox]_vars

(* SpecCrash: the editor handler on a machine that can lose the process    *)
(* between two statements of the handler.                                  *)
NextCrash == (running /\ ActiveEditorChange) \/ CrashInTouch

SpecCrash == Init /\ [][NextCrash]_vars

(* SpecHost: the synchronous queries between editor changes. *)
SpecHost == Init /\ [][NextHost \/ NextEditor]_vars

(* SpecFrame: every operation, from the construction with nothing          *)
(* persisted, the editor switching between no language and one language.   *)
NextFrame == ActiveEditorChangeFrame \/ NextDetect \/ NextHost

SpecFrame == InitFresh /\ [][NextFrame]_vars

(* Slices of Spec that keep every action writing the state a property      *)
(* reads, so that the property can be explored to larger bounds.           *)
(* SpecEditor: the history caches and the storage slots.                   *)
SpecEditor == Init /\ [][NextEditor]_vars

(* SpecDetect: the calls, the worker and the workspace resolution. *)
SpecDetect == Init /\ [][NextDetect]_vars

(* SpecBias: the four bias sources and the issue of calls, which fixes the *)
(* bias argument a call passes on.                                         *)
NextBias ==
    \/ ActiveEditorChange
    \/ DetectLanguage
    \/ WorkspaceResolved
    \/ workspaceFileExtensionsFailed

SpecBias == Init /\ [][NextBias]_vars

(* ============================== claims ================================= *)
In(l, S) == IF l \in S THEN 1 ELSE 0

(* C1: in every reachable state the bias map of getLanguageBiases has a   *)
(* key for an id exactly when the id is in one of the four sources, and    *)
(* its weight is 4*[session] + 3*[workspace] + 2*[workspace history] +     *)
(* 1*[global history], hence in 1..10.                                     *)
C1_BiasWeights ==
    /\ DOMAIN getLanguageBiases =
           sessionOpenedLanguageIds \cup workspaceLanguageIds
           \cup keys(historicalWorkspaceOpenedLanguageIds)
           \cup keys(historicalGlobalOpenedLanguageIds)
    /\ \A l \in DOMAIN getLanguageBiases :
           /\ getLanguageBiases[l] =
                  4 * In(l, sessionOpenedLanguageIds)
                  + 3 * In(l, workspaceLanguageIds)
                  + 2 * In(l, keys(historicalWorkspaceOpenedLanguageIds))
                  + 1 * In(l, keys(historicalGlobalOpenedLanguageIds))
           /\ getLanguageBiases[l] \in 1..10

C1_Witness ==
    /\ \E l \in Langs : l \in DOMAIN getLanguageBiases /\ getLanguageBiases[l] = 10
    /\ \E l \in Langs : l \in DOMAIN getLanguageBiases /\ getLanguageBiases[l] = 1
    /\ \E l \in Langs : l \notin DOMAIN getLanguageBiases

Obtained(c) == calls[c].worker # 0

PastSync(c) ==
    \/ calls[c].pc \in {"proxy", "detecting", "done"}
    \/ calls[c].pc = "failed" /\ calls[c].error \in {"create", "remote"}

(* C2: however many detectLanguage calls are issued and however they       *)
(* interleave, the worker is created at most once, exactly once as soon as *)
(* any call has asked for the proxy, and every call that obtained a proxy  *)
(* obtained it from that one instance.                                     *)
C2_SingleWorker ==
    /\ workerCreations <= 1
    /\ \A c \in CallIds : PastSync(c) => workerCreations = 1
    /\ \A c \in CallIds :
           Obtained(c) => /\ workerPromise.state = "resolved"
                          /\ calls[c].worker = workerPromise.instance
    /\ \A c, d \in CallIds :
           Obtained(c) /\ Obtained(d) => calls[c].worker = calls[d].worker

C2_Witness ==
    /\ workerCreations = 1
    /\ \A c \in CallIds : Obtained(c) /\ calls[c].pc = "done"

(* C3: with history-based detection enabled, the workspace file-extension  *)
(* enumeration has been started exactly once whenever a call has been      *)
(* issued, never more than once, and hasResolvedWorkspaceLanguageIds never *)
(* goes back to false.                                                     *)
C3_ResolveOnce ==
    /\ [](/\ enumerationStarts <= 1
          /\ (enumerationStarts = 1) = hasResolvedWorkspaceLanguageIds
          /\ \A c \in CallIds :
                 calls[c].pc # "idle" /\ calls[c].useHistory
                     => enumerationStarts = 1)
    /\ [][hasResolvedWorkspaceLanguageIds
              => hasResolvedWorkspaceLanguageIds']_vars

C3_Witness ==
    /\ enumerationStarts = 1
    /\ enumeration = "done"
    /\ \A c \in CallIds : calls[c].pc = "done" /\ calls[c].useHistory

PersistedIds(scope) ==
    IF storage[scope].kind = "json"
    THEN {storage[scope].data[i][1] : i \in 1..Len(storage[scope].data)}
    ELSE {}

(* C4: after construction (before any editor event) the global history set *)
(* holds exactly the ids persisted in the global slot and the workspace    *)
(* history set exactly the ids persisted in the workspace slot.            *)
C4_LoadOwnScope ==
    editorEvents = 0 =>
        /\ keys(historicalGlobalOpenedLanguageIds) = PersistedIds("global")
        /\ keys(historicalWorkspaceOpenedLanguageIds) = PersistedIds("workspace")

(* C5: after construction, a scope whose persisted slot is missing or      *)
(* malformed has an empty history set, whatever the other slot holds.      *)
C5_BadSlotEmpty ==
    editorEvents = 0 =>
        /\ storage["global"].kind # "json"
               => historicalGlobalOpenedLanguageIds = <<>>
        /\ storage["workspace"].kind # "json"
               => historicalWorkspaceOpenedLanguageIds = <<>>

(* C6: each history set holds at most 10 ids and each persisted slot at    *)
(* most 10 entries, in every reachable state.                              *)
C6_AtMostTen ==
    /\ Len(historicalGlobalOpenedLanguageIds) <= 10
    /\ Len(historicalWorkspaceOpenedLanguageIds) <= 10
    /\ \A scope \in Scopes : Len(storage[scope].data) <= 10

C6_Witness ==
    /\ storeWrites["global"] > 0
    /\ Len(storage["global"].data) = 10
    /\ Len(historicalGlobalOpenedLanguageIds) = 10
    /\ keys(historicalGlobalOpenedLanguageIds) # keys(FullIds)

(* What one touch of id does to a history set, by the claim. *)
TouchEffect(before, after, id) ==
    IF id \in keys(before)
    THEN /\ keys(after) = keys(before)
         /\ Len(after) = Len(before)
         /\ after[Len(after)] = id
         /\ RemoveKey(after, id) = RemoveKey(before, id)
    ELSE Len(before) = 10 =>
             /\ Len(after) = 10
             /\ keys(after) = (keys(before) \ {before[1]}) \cup {id}
             /\ after[Len(after)] = id

Touched ==
    /\ editorEvents' = editorEvents + 1
    /\ activeTextEditorLanguageId' # NoLang

(* C7: a touch of an id absent from a full history set removes exactly the *)
(* least recently touched id and adds the new one; a touch of an id that   *)
(* is present moves it to the most recent position and changes neither     *)
(* the size nor the membership.                                            *)
C7_TouchEvictsOldest ==
    [][Touched =>
          /\ TouchEffect(historicalGlobalOpenedLanguageIds,
                         historicalGlobalOpenedLanguageIds',
                         activeTextEditorLanguageId')
          /\ TouchEffect(historicalWorkspaceOpenedLanguageIds,
                         historicalWorkspaceOpenedLanguageIds',
                         activeTextEditorLanguageId')]_vars

C7_Witness ==
    historicalGlobalOpenedLanguageIds = SubSeq(FullIds, 3, 10) \o <<2, 1>>

Serialized(scope, cache) ==
    /\ storage[scope].kind = "json"
    /\ Len(storage[scope].data) = Len(cache)
    /\ \A i \in 1..Len(cache) : storage[scope].data[i] = <<cache[i], TRUE>>

(* C8: after the handler of an editor change with language id L, L is in   *)
(* the session set and in both history sets, each persisted slot is the    *)
(* serialization of its scope's history set, and the handler wrote each    *)
(* slot exactly once.                                                      *)
C8_TouchPersists ==
    /\ [](/\ activeTextEditorLanguageId # NoLang =>
                 /\ activeTextEditorLanguageId \in sessionOpenedLanguageIds
                 /\ activeTextEditorLanguageId
                        \in keys(historicalGlobalOpenedLanguageIds)
                 /\ activeTextEditorLanguageId
                        \in keys(historicalWorkspaceOpenedLanguageIds)
          /\ storeWrites["global"] > 0 =>
                 /\ Serialized("global", historicalGlobalOpenedLanguageIds)
                 /\ Serialized("workspace", historicalWorkspaceOpenedLanguageIds))
    /\ [][Touched => \A scope \in Scopes :
                         storeWrites'[scope] = storeWrites[scope] + 1]_vars

C8_Witness ==
    /\ activeTextEditorLanguageId # NoLang
    /\ storeWrites["global"] = 2
    /\ storeWrites["workspace"] = 2
    /\ Len(historicalWorkspaceOpenedLanguageIds) = 2
    /\ Len(historicalGlobalOpenedLanguageIds) = 10

(* C9: a detectLanguage call made with history-based detection disabled    *)
(* delivers no bias argument, whatever the four sources contain.           *)
C9_NoBiasWhenDisabled ==
    \A c \in CallIds :
        calls[c].pc # "idle" /\ ~calls[c].useHistory => ~calls[c].biases.present

C9_Witness ==
    \E c \in CallIds :
        /\ calls[c].pc # "idle"
        /\ ~calls[c].useHistory
        /\ ~calls[c].biases.present
        /\ DOMAIN getLanguageBiases # {}
        /\ \E d \in CallIds : calls[d].biases.present
                                 /\ DOMAIN calls[d].biases.map # {}

(* C10: a completed call returns a registered raw code unchanged; for an   *)
(* unregistered code c it returns the registry's filename guess for        *)
(* file.c, or no guess when there is none; when the worker returned no     *)
(* code the result is no guess, no error, and the registry was not asked.  *)
C10_CanonicalResult ==
    \A c \in CallIds :
        calls[c].pc = "done" =>
            /\ calls[c].error = "none"
            /\ calls[c].raw \in Langs =>
                   calls[c].result = calls[c].raw
            /\ calls[c].raw # NoCode /\ calls[c].raw \notin Langs =>
                   /\ calls[c].probes = {[name |-> "file", ext |-> calls[c].raw]}
                   /\ LET guess == guessLanguageIdByFilepathOrFirstLine(
                                       [name |-> "file", ext |-> calls[c].raw])
                      IN calls[c].result = IF guess \in Langs THEN guess ELSE NoLang
            /\ calls[c].raw = NoCode =>
                   /\ calls[c].result = NoLang
                   /\ ~calls[c].checked
                   /\ calls[c].probes = {}

C10_Witness ==
    /\ \E c \in CallIds : /\ calls[c].pc = "done"
                          /\ calls[c].raw = GuessableCode
                          /\ calls[c].result = 2
    /\ \E c \in CallIds : /\ calls[c].pc = "done"
                          /\ calls[c].raw = NoCode
                          /\ calls[c].result = NoLang

(* C11: once the worker creation has failed, the rejected promise stays    *)
(* the memoized one: there has been exactly one creation attempt and       *)
(* there is never another, no call gets a proxy, issues a remote request   *)
(* or completes with a result, and every call that has asked for the       *)
(* proxy has rejected with the creation error.                             *)
C11_FailureMemoized ==
    /\ [](workerPromise.state = "rejected" =>
            /\ workerCreations = 1
            /\ workerPromise.instance = 1
            /\ \A c \in CallIds :
                   /\ calls[c].pc \notin {"proxy", "detecting", "done"}
                   /\ calls[c].worker = 0
                   /\ calls[c].requests = 0
                   /\ calls[c].synced =>
                          calls[c].pc = "failed" /\ calls[c].error = "create")
    /\ [][workerPromise.state = "rejected" =>
              /\ workerPromise' = workerPromise
              /\ workerCreations' = workerCreations]_vars

C11_Witness ==
    /\ workerPromise.state = "rejected"
    /\ workerCreations = 1
    /\ \A c \in CallIds :
           calls[c].pc = "failed" /\ calls[c].error = "create"

(* C12: a call issues its remote detect request only after its own         *)
(* _withSyncedResources has completed, whatever the other calls are        *)
(* doing: every call that has issued the request, waits for the answer or  *)
(* has it is synchronised, and the step that issues the request starts     *)
(* from a state in which the call is synchronised.                         *)
C12_SyncBeforeRemote ==
    /\ [](\A c \in CallIds :
            (calls[c].requests > 0 \/ calls[c].pc \in {"detecting", "done"})
                => calls[c].synced)
    /\ [][\A c \in CallIds :
              calls'[c].requests > calls[c].requests => calls[c].synced]_vars

C12_Witness ==
    \E c, d \in CallIds :
        /\ calls[c].pc = "detecting" /\ calls[c].requests = 1 /\ calls[c].synced
        /\ calls[d].pc = "syncing" /\ calls[d].requests = 0 /\ ~calls[d].synced

(* The bias argument of a call that reads no workspace language id. *)
BiasesWithoutWorkspace ==
    [present |-> TRUE,
     map |-> computeBiases(sessionOpenedLanguageIds, {},
                           historicalWorkspaceOpenedLanguageIds,
                           historicalGlobalOpenedLanguageIds)]

Issued(c) == calls[c].pc = "idle" /\ calls'[c].pc # "idle"

(* C13: the call that starts the workspace resolution does not wait for    *)
(* it.  The workspace set is empty until the enumeration has completed; a  *)
(* call issued before that, the starting call included, computes a bias    *)
(* argument with no workspace contribution; the completion of the          *)
(* enumeration moves no call and changes no bias argument already          *)
(* computed; and the starting call delivers the argument it computed.      *)
C13_TriggerDoesNotWait ==
    /\ [](enumeration # "done" => workspaceLanguageIds = {})
    /\ [](\A c \in CallIds :
            calls[c].triggered /\ calls[c].requests > 0
                => calls[c].delivered = calls[c].biases)
    /\ [][\A c \in CallIds :
              /\ (Issued(c) /\ calls'[c].useHistory /\ enumeration # "done")
                     => calls'[c].biases = BiasesWithoutWorkspace
              /\ (Issued(c) /\ calls'[c].triggered)
                     => enumeration = "idle" /\ enumeration' = "pending"
              /\ calls[c].triggered => calls'[c].biases = calls[c].biases
              /\ enumeration' # enumeration /\ enumeration = "pending"
                     => calls'[c] = calls[c]]_vars

C13_Witness ==
    \E c \in CallIds :
        /\ calls[c].triggered
        /\ calls[c].pc = "done"
        /\ calls[c].delivered.map # EmptyBiases
        /\ enumeration = "pending"

(* C14: a failed enumeration is not retried.  Once it has failed it stays  *)
(* failed, there has been one start and there is never another, the flag   *)
(* stays set and the workspace set stays empty; every call issued          *)
(* afterwards computes a bias argument with no workspace contribution;     *)
(* and the failure itself changes no call, so it rejects none.             *)
C14_NoRetryAfterFailure ==
    /\ [](enumeration = "failed" =>
            /\ enumerationStarts = 1
            /\ hasResolvedWorkspaceLanguageIds
            /\ workspaceLanguageIds = {})
    /\ [][/\ (enumeration = "failed") =>
                 (/\ enumeration' = "failed"
                  /\ enumerationStarts' = enumerationStarts
                  /\ workspaceLanguageIds' = workspaceLanguageIds
                  /\ \A c \in CallIds :
                         /\ (Issued(c) /\ calls'[c].useHistory)
                                => calls'[c].biases = BiasesWithoutWorkspace
                         /\ Issued(c) => ~calls'[c].triggered)
          /\ (enumeration # "failed" /\ enumeration' = "failed")
                 => calls' = calls]_vars

C14_Witness ==
    /\ enumeration = "failed"
    /\ calls[1].triggered /\ calls[1].pc = "done"
    /\ calls[2].useHistory /\ calls[2].pc = "done"
    /\ calls[2].delivered.map # EmptyBiases

(* C15: a call whose synchronisation or remote request fails rejects with  *)
(* that error and stays rejected.  A call never issues more than one       *)
(* remote request; a call rejected by the synchronisation was never        *)
(* synchronised, got no worker and issued no request; a call rejected by   *)
(* the remote request issued exactly one; and a rejected call has no       *)
(* result and used no registry operation.                                  *)
C15_FailurePropagates ==
    /\ [](\A c \in CallIds :
            /\ calls[c].requests <= 1
            /\ (calls[c].error # "none") = (calls[c].pc = "failed")
            /\ calls[c].pc = "failed" =>
                   /\ calls[c].error \in {"sync", "create", "remote"}
                   /\ calls[c].raw = NoCode
                   /\ calls[c].result = NoLang
                   /\ ~calls[c].checked
                   /\ calls[c].probes = {}
            /\ calls[c].error = "sync" =>
                   /\ ~calls[c].synced
                   /\ calls[c].worker = 0
                   /\ calls[c].requests = 0
            /\ calls[c].error = "remote" =>
                   /\ calls[c].synced
                   /\ calls[c].requests = 1)
    /\ [][\A c \in CallIds :
              calls[c].pc = "failed" => calls'[c] = calls[c]]_vars

C15_Witness ==
    \E c, d \in CallIds :
        /\ calls[c].pc = "failed" /\ calls[c].error = "sync"
        /\ calls[d].pc = "failed" /\ calls[d].error = "remote"

(* The session set, the two history sets and the persisted slots with      *)
(* their write counts.                                                     *)
OpenedState ==
    <<sessionOpenedLanguageIds, historicalGlobalOpenedLanguageIds,
      historicalWorkspaceOpenedLanguageIds, storage, storeWrites>>

(* C16: after construction the session set, the history sets and the       *)
(* persisted slots change only in the handler of an editor change with a   *)
(* language id.  A step of a detectLanguage call, of the workspace          *)
(* resolution or of the worker creation, an isEnabledForLanguage or a       *)
(* foreign host request leaves them all unchanged, and so does an editor   *)
(* change with no language id, which also writes no slot.                  *)
C16_OnlyEditorChangeWrites ==
    [][/\ OpenedState' # OpenedState => Touched
       /\ (editorEvents' # editorEvents /\ activeTextEditorLanguageId' = NoLang)
              => OpenedState' = OpenedState
       /\ (\/ calls' # calls
           \/ enumeration' # enumeration
           \/ enumerationStarts' # enumerationStarts
           \/ hasResolvedWorkspaceLanguageIds' # hasResolvedWorkspaceLanguageIds
           \/ workspaceLanguageIds' # workspaceLanguageIds
           \/ workerPromise' # workerPromise
           \/ returned' # returned)
              => OpenedState' = OpenedState]_vars

C16_Witness ==
    /\ editorEvents > 0
    /\ activeTextEditorLanguageId = NoLang
    /\ calls[1].pc = "done" /\ calls[1].result # NoLang
    /\ calls[2].pc = "failed"
    /\ enumeration = "done" /\ workspaceLanguageIds # {}
    /\ returned.method = "sendTelemetryEvent"
    /\ sessionOpenedLanguageIds = {}
    /\ historicalGlobalOpenedLanguageIds = <<>>
    /\ historicalWorkspaceOpenedLanguageIds = <<>>
    /\ \A scope \in Scopes : storage[scope] = Missing /\ storeWrites[scope] = 0

(* C17: a foreign host request is handled by the client itself exactly     *)
(* when its method is one of the five names, and is forwarded to the base  *)
(* handler otherwise, returning nothing of the client's; the four URI      *)
(* fields never change, and each getter returns the field the client was   *)
(* constructed with, whatever has happened before.                         *)
C17_HostDispatch ==
    /\ clientUris = LanguageDetectionWorkerClient
    /\ returned.method \in HostMethods \cup OtherMethods =>
           /\ (returned.handledBy = "client") = (returned.method \in HostMethods)
           /\ (returned.handledBy = "base") = (returned.method \in OtherMethods)
           /\ returned.handledBy = "base" =>
                  returned.uri = "none" /\ returned.logged = <<>>
    /\ returned.method = "getIndexJsUri" =>
           returned.uri = LanguageDetectionWorkerClient.indexJsUri
    /\ returned.method = "getModelJsonUri" =>
           returned.uri = LanguageDetectionWorkerClient.modelJsonUri
    /\ returned.method = "getWeightsUri" =>
           returned.uri = LanguageDetectionWorkerClient.weightsUri
    /\ returned.method = "getRegexpModelUri" =>
           returned.uri = LanguageDetectionWorkerClient.regexpModelUri
    /\ returned.method = "sendTelemetryEvent" =>
           returned.uri = "none" /\ Len(returned.logged) = 1

C17_Witness ==
    /\ editorEvents = MaxEvents
    /\ storeWrites["global"] > 0
    /\ returned.method = "getRegexpModelUri"
    /\ returned.uri = "vscode-regexp-languagedetection/dist/index.js"

Crashed == running /\ ~running'

Stored(scope) == storeWrites'[scope] = storeWrites[scope] + 1

(* C18: the handler stores the global slot before the workspace slot.  At  *)
(* whatever point of the handler the process dies, each slot has been      *)
(* stored at most once, the workspace slot has been stored only if the     *)
(* global slot has, a slot not stored holds what it held before, and a     *)
(* global slot stored holds the touched id.                                *)
C18_GlobalBeforeWorkspace ==
    [][Crashed =>
          /\ \A scope \in Scopes :
                 \/ Stored(scope)
                 \/ /\ storeWrites'[scope] = storeWrites[scope]
                    /\ storage'[scope] = storage[scope]
          /\ Stored("workspace") => Stored("global")
          /\ Stored("global") =>
                 /\ storage'["global"].kind = "json"
                 /\ \E i \in 1..Len(storage'["global"].data) :
                        storage'["global"].data[i][1] = activeTextEditorLanguageId'
          /\ Stored("workspace") =>
                 /\ storage'["workspace"].kind = "json"
                 /\ \E i \in 1..Len(storage'["workspace"].data) :
                        storage'["workspace"].data[i][1] = activeTextEditorLanguageId'
      ]_vars

C18_Witness ==
    /\ ~running
    /\ storeWrites["global"] = 1
    /\ storeWrites["workspace"] = 0
    /\ storage["workspace"] = Missing
    /\ activeTextEditorLanguageId \in PersistedIds("global")

(* C19: the bias argument a call delivers to the worker is the one         *)
(* computed from the four sources as they were when the call was made      *)
(* (none when the setting was off).  Once a call is made its argument      *)
(* never changes, whatever editor changes and workspace resolution steps   *)
(* follow, and the remote request carries exactly that argument.           *)
C19_BiasSnapshot ==
    /\ [](\A c \in CallIds :
            calls[c].requests > 0 => calls[c].delivered = calls[c].biases)
    /\ [][\A c \in CallIds :
              /\ Issued(c) =>
                     calls'[c].biases =
                         IF calls'[c].useHistory
                         THEN [present |-> TRUE, map |-> getLanguageBiases]
                         ELSE NoBiases
              /\ calls[c].pc # "idle" => calls'[c].biases = calls[c].biases
              /\ calls[c].requests > 0 =>
                     calls'[c].delivered = calls[c].delivered]_vars

C19_Witness ==
    \E c \in CallIds :
        /\ calls[c].pc = "detecting"
        /\ calls[c].delivered.present
        /\ calls[c].delivered.map # EmptyBiases
        /\ \E l \in sessionOpenedLanguageIds :
               l \notin DOMAIN calls[c].delivered.map
        /\ \E l \in workspaceLanguageIds :
               l \notin DOMAIN calls[c].delivered.map

Made(c) == calls[c].pc # "idle"

(* C20: as long as every call made had the setting off, no resolution has  *)
(* been started and the flag is unset; a call made with the setting off    *)
(* changes neither the flag nor the enumeration; and the call that starts  *)
(* the resolution is the first one made with the setting on, however many  *)
(* calls with the setting off came before it.                              *)
C20_DisabledNeverResolves ==
    /\ []((\A c \in CallIds : Made(c) => ~calls[c].useHistory) =>
             /\ ~hasResolvedWorkspaceLanguageIds
             /\ enumeration = "idle"
             /\ enumerationStarts = 0
             /\ workspaceLanguageIds = {})
    /\ [](\A c \in CallIds :
            calls[c].triggered =
                /\ Made(c)
                /\ calls[c].useHistory
                /\ \A d \in CallIds : d < c => ~calls[d].useHistory)
    /\ []((\E c \in CallIds : Made(c) /\ calls[c].useHistory) =>
             hasResolvedWorkspaceLanguageIds /\ enumerationStarts = 1)
    /\ [][\A c \in CallIds :
              (Issued(c) /\ ~calls'[c].useHistory) =>
                  UNCHANGED <<hasResolvedWorkspaceLanguageIds, enumeration,
                              enumerationStarts, workspaceLanguageIds>>]_vars

C20_Witness ==
    /\ Made(1) /\ ~calls[1].useHistory /\ ~calls[1].triggered
    /\ Made(2) /\ calls[2].useHistory /\ calls[2].triggered
    /\ enumerationStarts = 1
    /\ hasResolvedWorkspaceLanguageIds

(* C21: in every reachable state every id of the workspace history set is  *)
(* in the session set, so every such id has at least the session weight    *)
(* and the workspace history weight together in the bias map; the global   *)
(* history set is under no such restriction.                               *)
C21_WorkspaceHistoryInSession ==
    /\ keys(historicalWorkspaceOpenedLanguageIds) \subseteq sessionOpenedLanguageIds
    /\ \A l \in keys(historicalWorkspaceOpenedLanguageIds) :
           /\ l \in DOMAIN getLanguageBiases
           /\ getLanguageBiases[l] >= sessionWeight + historicalWorkspaceWeight

C21_Witness ==
    /\ Len(historicalWorkspaceOpenedLanguageIds) = NumEditorLangs
    /\ keys(historicalWorkspaceOpenedLanguageIds) = sessionOpenedLanguageIds
    /\ PersistedIds("workspace") = sessionOpenedLanguageIds
    /\ \E l \in keys(historicalGlobalOpenedLanguageIds) :
           l \notin sessionOpenedLanguageIds

(* C22: for one renderInputBox call the body of done runs at most once,    *)
(* whatever keys, blurs and disposals follow and even when a blur arrives  *)
(* while the input box is disposed.  onFinish is called at most once, with *)
(* success false exactly when Escape came first; when the disposal came    *)
(* first onFinish is never called and the selected expression is kept;     *)
(* and once done has run the name and the value are shown, the container   *)
(* is hidden and the listeners are disposed.                               *)
C22_FinishOnce ==
    /\ inputBox.runs <= 1
    /\ Len(inputBox.onFinish) <= 1
    /\ (inputBox.runs = 1) = inputBox.didCall
    /\ (inputBox.trigger # "none") = inputBox.didCall
    /\ inputBox.trigger \in {"Enter", "Escape", "blur"} =>
           /\ Len(inputBox.onFinish) = 1
           /\ inputBox.onFinish[1][2] = (inputBox.trigger # "Escape")
           /\ inputBox.onFinish[1][1] = inputBox.value
           /\ inputBox.selectedExpression = "undefined"
    /\ inputBox.trigger \in {"dispose", "none"} =>
           /\ inputBox.onFinish = <<>>
           /\ inputBox.selectedExpression = "expression"
    /\ inputBox.didCall =>
           /\ inputBox.nameElement = "initial"
           /\ inputBox.valueElement = "initial"
           /\ inputBox.inputBoxContainer = "none"
           /\ inputBox.toDispose = "disposed"

C22_Witness ==
    /\ inputBox.trigger = "dispose"
    /\ inputBox.blurInDispose
    /\ inputBox.value = "typed"
    /\ inputBox.runs = 1
    /\ inputBox.onFinish = <<>>
    /\ inputBox.nameElement = "initial"

====
